---- MODULE Spec2Model ----
(***************************************************************************)
(* Model of src/sentry/search/snuba/executors.py: the two query executors  *)
(* (PostgresSnubaQueryExecutor, SnubaOnlyQueryExecutor) that answer a      *)
(* ranked group search by combining the relational store (Postgres) with   *)
(* the analytical store (Snuba).                                           *)
(*                                                                         *)
(* Python values are encoded as follows: None is the empty sequence and a  *)
(* present optional value x is <<x>>; a (group_id, score) tuple is the     *)
(* sequence <<group_id, score>>; datetimes are integers counting minutes.  *)
(***************************************************************************)
EXTENDS Integers, Sequences, FiniteSets, TLC

\* ------------------------------------------------------------------ bounds
NumIds == 3          \* group identifiers are 1..NumIds
MaxScore == 2        \* sort scores are 1..MaxScore; 0 = no matching event
MaxLimit == 2        \* page limits are 1 or MaxLimit

Ids == 1..NumIds
Scores == 1..MaxScore

\* ------------------------------------------------------------------ Python helpers
None == <<>>
Some(x) == <<x>>
Val(o) == o[1]

Min2(a, b) == IF a <= b THEN a ELSE b
Max2(a, b) == IF a >= b THEN a ELSE b

Range(s) == {s[i] : i \in 1..Len(s)}

\* All orderings of a finite set, as sequences without repetition.
Perms(S) == {s \in [1..Cardinality(S) -> S] : \A i, j \in 1..Cardinality(S) : s[i] = s[j] => i = j}

\* The orders in which an unordered collection (a queryset without order_by,
\* a dict's keys) is iterated: ascending or descending id.
Orders(S) == {s \in Perms(S) : \/ \A i \in 1..(Len(s) - 1) : s[i] < s[i + 1]
                               \/ \A i \in 1..(Len(s) - 1) : s[i] > s[i + 1]}

\* s[lo:hi] of Python, for 0 <= lo.
Slice(s, lo, hi) == SubSeq(s, lo + 1, Min2(hi, Len(s)))

\* sorted(ids): ascending.
RECURSIVE sorted(_)
sorted(S) ==
    IF S = {} THEN <<>>
    ELSE LET m == CHOOSE x \in S : \A y \in S : x <= y
         IN <<m>> \o sorted(S \ {m})

\* The identifiers of S ordered by key descending, then identifier ascending.
RECURSIVE OrderDesc(_, _)
OrderDesc(S, key) ==
    IF S = {} THEN <<>>
    ELSE LET m == CHOOSE x \in S : \A y \in S :
                      \/ key[x] > key[y]
                      \/ key[x] = key[y] /\ x <= y
         IN <<m>> \o OrderDesc(S \ {m}, key)

\* The identifiers of S ordered by key ascending (keys are distinct).
RECURSIVE OrderAsc(_, _)
OrderAsc(S, key) ==
    IF S = {} THEN <<>>
    ELSE LET m == CHOOSE x \in S : \A y \in S : key[x] <= key[y]
         IN <<m>> \o OrderAsc(S \ {m}, key)

\* ------------------------------------------------------------------ state
VARIABLES
    snuba,                \* analytical store: group id -> score of the groups matching the query's conditions (0: none)
    matching,             \* relational store: the ids group_queryset selects
    EMPTY_RESULT,         \* AbstractQueryExecutor.EMPTY_RESULT, one object shared by every query
    executor,             \* which executor runs the current query: "postgres" or "snuba_only"
    pc,                   \* position of the current query
    limit, cursor, count_hits,
    group_ids, too_many_candidates,
    max_candidates, chunk_growth, max_chunk_size, max_time,
    chunk_limit, offset, num_chunks, hits,
    result_groups, result_group_ids,
    paginator_results, more_results,
    elapsed,              \* time.time() - time_start, in ticks
    calls,                \* the analytical-store calls of the current query, in order
    pg_calls,             \* the relational-store calls of the current query, in order
    request,              \* what the caller asked: the window of its dates, whether it qualifies for the fast path
    result,               \* what the query returned to its caller
    drifted,              \* the stores' content changed under the current query
    sampled,              \* the counts one hit estimate is computed from
    estimate,             \* the estimate computed from them
    window_args,          \* the clock and the date arguments one window is resolved from
    window_out,           \* the window resolved from them
    hydration,            \* the page finalize hydrated and the groups in_bulk found for it
    hits_invoked,         \* the calculate_hits invocations of the current query: the pass and what it returned
    failure,              \* the store call that raised, with the number of calls made by then
    earlier               \* the outcome of the run the current query repeats

storeVars == <<snuba, matching>>
argVars == <<executor, limit, cursor, count_hits>>
optVars == <<max_candidates, chunk_growth, max_chunk_size, max_time>>
candVars == <<group_ids, too_many_candidates>>
loopVars == <<chunk_limit, offset, num_chunks, hits, result_groups, result_group_ids,
              paginator_results, more_results, elapsed, hits_invoked>>
logVars == <<calls, pg_calls>>
queryVars == <<storeVars, EMPTY_RESULT, argVars, optVars, candVars, loopVars, pc, logVars, request,
               result, drifted, hydration, failure>>
hitVars == <<sampled, estimate>>
windowVars == <<window_args, window_out>>
pureVars == <<hitVars, windowVars>>
sideVars == <<pureVars, earlier>>
vars == <<queryVars, sideVars>>

\* ------------------------------------------------------------------ time window
NinetyDays == 129600          \* timedelta(days=90), in minutes
ALLOWED_FUTURE_DELTA == 5     \* sentry.constants.ALLOWED_FUTURE_DELTA, in minutes
Now == 4 * NinetyDays         \* timezone.now()

\* filter(None, xs): the present values of a list of optional values.
RECURSIVE FilterNone(_)
FilterNone(xs) ==
    IF xs = <<>> THEN <<>>
    ELSE (IF Head(xs) = None THEN <<>> ELSE <<Val(Head(xs))>>) \o FilterNone(Tail(xs))

PyMax(xs) == CHOOSE x \in Range(xs) : \A y \in Range(xs) : x >= y
PyMin(xs) == CHOOSE x \in Range(xs) : \A y \in Range(xs) : x <= y

\* str.startswith for the comparison operators.
StartsWith(op, prefix) == op = prefix \/ (prefix = "<" /\ op = "<=") \/ (prefix = ">" /\ op = ">=")

RECURSIVE get_search_filter_from(_, _, _, _)
get_search_filter_from(search_filters, name, operator, found_val) ==
    IF search_filters = <<>> THEN found_val
    ELSE LET sf == Head(search_filters)
             val == sf.value
             next_val == IF sf.name = name /\ StartsWith(sf.operator, operator)
                         THEN (IF found_val # None
                               THEN (IF operator = ">" THEN Some(Max2(val, Val(found_val)))
                                                       ELSE Some(Min2(val, Val(found_val))))
                               ELSE Some(val))
                         ELSE found_val
         IN get_search_filter_from(Tail(search_filters), name, operator, next_val)

get_search_filter(search_filters, name, operator) ==
    get_search_filter_from(search_filters, name, operator, None)

\* end_params / end of query(): None when neither date_to nor a date "<" filter is given.
explicit_end(search_filters, date_to) ==
    LET end_params == FilterNone(<<date_to, get_search_filter(search_filters, "date", "<")>>)
    IN IF end_params # <<>> THEN Some(PyMin(end_params)) ELSE None

\* The retention floor taken as the earlier of its two sources.
resolve_window_earliest_retention(now, retention_window_start, search_filters, date_from, end0) ==
    LET retention_date == PyMin(FilterNone(<<retention_window_start, Some(now - NinetyDays)>>))
        start_params == <<date_from, Some(retention_date), get_search_filter(search_filters, "date", ">")>>
        start == PyMax(FilterNone(start_params))
        end == PyMax(<<retention_date, end0>>)
    IN [retention_date |-> retention_date, start |-> start, end |-> end]

\* retention_date, start and end as query() resolves them once `end` has its default.
resolve_window(now, retention_window_start, search_filters, date_from, end0) ==
    LET retention_date == PyMax(FilterNone(<<retention_window_start, Some(now - NinetyDays)>>))
        start_params == <<date_from, Some(retention_date), get_search_filter(search_filters, "date", ">")>>
        start == PyMax(FilterNone(start_params))
        end == PyMax(<<retention_date, end0>>)
    IN [retention_date |-> retention_date, start |-> start, end |-> end]

\* The window is taken for empty only when start lies after end.
window_is_empty_strict(start, end, retention_date) == start > end

\* Lines 386-397: the two tests that return EMPTY_RESULT.
window_is_empty(start, end, retention_date) ==
    \/ start = retention_date /\ end = retention_date
    \/ start >= end

\* ------------------------------------------------------------------ analytical store
\* cityHash64(query_hash, issue): a fixed scrambling of the identifiers.
cityHash64 == [i \in Ids |-> (7 * i + 3) % 11]

\* The store's answer: the groups with a matching event, restricted by the
\* issue filter and the having condition, ordered, then cut to limit/offset;
\* the total counts the groups after having.
dataset_query(store, issue_filter, having, orderby, lim, off) ==
    LET m == {i \in Ids :
                /\ store[i] > 0
                /\ issue_filter # None => i \in Range(Val(issue_filter))
                /\ having # None =>
                     IF Val(having).op = ">=" THEN store[i] >= Val(having).value
                                              ELSE store[i] <= Val(having).value}
        ordered == IF orderby = "sample" THEN OrderAsc(m, cityHash64) ELSE OrderDesc(m, store)
        rows == IF lim = None THEN Slice(ordered, off, Len(ordered))
                              ELSE Slice(ordered, off, off + Val(lim))
    IN [data |-> [k \in 1..Len(rows) |->
                    <<rows[k], IF orderby = "sample" THEN cityHash64[rows[k]] ELSE store[rows[k]]>>],
        total |-> Cardinality(m)]

\* AbstractQueryExecutor.snuba_search: returns the rows, the total, and the
\* request as sent (kept for the call log).
snuba_search(store, cursor_, group_ids_, limit_, offset_, get_sample) ==
    LET issue_filter == IF group_ids_ # <<>> THEN Some(sorted(Range(group_ids_))) ELSE None
        having == IF cursor_ # None
                  THEN Some([op |-> IF Val(cursor_).is_prev THEN ">=" ELSE "<=",
                             value |-> Val(cursor_).value])
                  ELSE None
        orderby == IF get_sample THEN "sample" ELSE "-sort_field"
        res == dataset_query(store, issue_filter, having, orderby, limit_, offset_)
    IN [referrer |-> IF get_sample THEN "search_sample" ELSE "search",
        issue |-> issue_filter, having |-> having, limit |-> limit_, offset |-> offset_,
        rows |-> res.data, total |-> res.total]

\* [gid for gid, _ in snuba_groups]
gids(rows) == {rows[k][1] : k \in 1..Len(rows)}

\* dict(snuba_groups)[group_id]
group_to_score(rows, group_id) == rows[CHOOSE k \in 1..Len(rows) : rows[k][1] = group_id][2]

\* ------------------------------------------------------------------ paginators
\* Paginator(Group.objects.none()).get_result(): the canonical empty page.
EmptyPage == [shared |-> FALSE, results |-> <<>>,
              prev |-> [value |-> 0, has_results |-> FALSE],
              next |-> [value |-> 0, has_results |-> FALSE],
              hits |-> None]

\* A local variable that refers to the shared EMPTY_RESULT object.
RefEmpty == [EmptyPage EXCEPT !.shared = TRUE]

\* A paginator that pages the pairs in the order they were handed over.
SequencePaginator_in_arrival_order(pairs, limit_, cursor_, known_hits) ==
    LET ordered == [k \in 1..Len(pairs) |-> pairs[k][1]]
        n == Len(ordered)
        hi == Min2(limit_, n)
    IN [shared |-> FALSE,
        results |-> Slice(ordered, 0, hi),
        prev |-> [value |-> 0, has_results |-> FALSE],
        next |-> [value |-> 0, has_results |-> hi < n],
        hits |-> known_hits]

\* SequencePaginator([(score, id), ...], reverse=True).get_result(limit, cursor, known_hits):
\* sorts by score descending then identifier ascending, slices the window the
\* cursor names, and emits the prev/next cursors of that slice.
SequencePaginator_get_result(pairs, limit_, cursor_, known_hits) ==
    LET S == gids(pairs)
        key == [i \in S |-> group_to_score(pairs, i)]
        ordered == OrderDesc(S, key)
        n == Len(ordered)
        is_prev == cursor_ # None /\ Val(cursor_).is_prev
        position == IF cursor_ = None THEN 0
                    ELSE Cardinality({i \in S : key[i] > Val(cursor_).value}) + Val(cursor_).offset
        hi == IF is_prev THEN Min2(position, n) ELSE Min2(Min2(position, n) + limit_, n)
        lo == IF is_prev THEN Max2(hi - limit_, 0) ELSE Min2(position, n)
        at(k) == key[ordered[Min2(k, n - 1) + 1]]
    IN [shared |-> FALSE,
        results |-> Slice(ordered, lo, hi),
        prev |-> [value |-> IF n > 0 THEN at(lo) ELSE 0, has_results |-> lo > 0],
        next |-> [value |-> IF n > 0 THEN at(hi) ELSE 0, has_results |-> hi < n],
        hits |-> known_hits]

\* Group.last_seen of the relational store, the column the fast path orders by.
last_seen == [i \in Ids |-> NumIds + 1 - i]

\* DateTimePaginator(group_queryset.order_by("-last_seen")).get_result(limit, None, count_hits)
DateTimePaginator_get_result(queryset, limit_, count_hits_) ==
    LET ordered == OrderDesc(queryset, last_seen)
    IN [shared |-> FALSE,
        results |-> Slice(ordered, 0, limit_),
        prev |-> [value |-> 0, has_results |-> FALSE],
        next |-> [value |-> 0, has_results |-> Len(ordered) > limit_],
        hits |-> IF count_hits_ THEN Some(Cardinality(queryset)) ELSE None]

\* The object a local paginator_results variable denotes.
Deref(p, empty_result) == IF p.shared THEN empty_result ELSE p

\* ------------------------------------------------------------------ float arithmetic
\* Python floats are IEEE-754 doubles. A positive double is kept as its 53
\* significant bits, the leading 1 and four limbs of LimbBits bits each
\* (most significant first), with the exponent e of its last bit:
\* value = (2^52 + d[1]*B^3 + d[2]*B^2 + d[3]*B + d[4]) * 2^e, B = 2^LimbBits.
\* The operands of the executors are counts below 2^17, which keeps every
\* intermediate product within TLC's integers.
MantissaBits == 53
LimbBits == 13
Base == 2^LimbBits
FloatZero == [zero |-> TRUE, d |-> <<0, 0, 0, 0>>, e |-> 0]

\* The number of bits after the leading one: 2^BitLen(n) <= n < 2^(BitLen(n) + 1).
BitLen(n) == CHOOSE k \in 0..30 : 2^k <= n /\ n < 2 * 2^k

\* Round half to even: the kept digits d with what was dropped being above
\* (1), exactly (0) or below (-1) one half of the last bit.
RoundEven(d, half, e) ==
    LET up == half > 0 \/ (half = 0 /\ d[4] % 2 = 1)
        s4 == d[4] + (IF up THEN 1 ELSE 0)
        s3 == d[3] + (s4 \div Base)
        s2 == d[2] + (s3 \div Base)
        s1 == d[1] + (s2 \div Base)
    IN IF s1 \div Base = 1
       THEN [zero |-> FALSE, d |-> <<0, 0, 0, 0>>, e |-> e + 1]
       ELSE [zero |-> FALSE, d |-> <<s1 % Base, s2 % Base, s3 % Base, s4 % Base>>, e |-> e]

\* a / float(c) for integers a >= 0, c > 0: the correctly rounded quotient.
FloatDiv(a, c) ==
    IF a = 0 THEN FloatZero
    ELSE LET up == IF a >= c THEN 0 ELSE CHOOSE k \in 1..30 : a * 2^k >= c /\ a * 2^(k - 1) < c
             down == IF a < c THEN 0 ELSE CHOOSE k \in 0..30 : c * 2^k <= a /\ a < 2 * c * 2^k
             a1 == a * 2^up
             c1 == c * 2^down
             r0 == a1 - c1
             d1 == (r0 * Base) \div c1
             r1 == (r0 * Base) % c1
             d2 == (r1 * Base) \div c1
             r2 == (r1 * Base) % c1
             d3 == (r2 * Base) \div c1
             r3 == (r2 * Base) % c1
             d4 == (r3 * Base) \div c1
             r4 == (r3 * Base) % c1
             half == IF 2 * r4 > c1 THEN 1 ELSE IF 2 * r4 = c1 THEN 0 ELSE -1
         IN RoundEven(<<d1, d2, d3, d4>>, half, down - up - (MantissaBits - 1))

\* x * t for a double x >= 0 and an integer t >= 0: the correctly rounded product.
FloatMul(x, t) ==
    IF x.zero \/ t = 0 THEN FloatZero
    ELSE LET s4 == x.d[4] * t
             s3 == x.d[3] * t + (s4 \div Base)
             s2 == x.d[2] * t + (s3 \div Base)
             s1 == x.d[1] * t + (s2 \div Base)
             top == t + (s1 \div Base)
             n == BitLen(top)
             D == 2^n
             c1 == (top % D) * Base + (s1 % Base)
             c2 == (c1 % D) * Base + (s2 % Base)
             c3 == (c2 % D) * Base + (s3 % Base)
             c4 == (c3 % D) * Base + (s4 % Base)
             rest == c4 % D
             half == IF 2 * rest > D THEN 1 ELSE IF 2 * rest = D THEN 0 ELSE -1
         IN RoundEven(<<c1 \div D, c2 \div D, c3 \div D, c4 \div D>>, half, x.e + n)

\* int(x) for a double 0 <= x < 2^26: truncation toward zero.
FloatToInt(x) ==
    LET k == 0 - x.e
        w == k \div LimbBits
        b == k % LimbBits
        kept == CASE w = 2 -> ((Base + x.d[1]) * Base + x.d[2])
                  [] w = 3 -> (Base + x.d[1])
                  [] w = 4 -> 1
    IN IF x.zero \/ k >= MantissaBits THEN 0
       ELSE IF w = 4 /\ b > 0 THEN 0
       ELSE kept \div 2^b

\* ------------------------------------------------------------------ hit estimate
\* The ratio taken the wrong way round: sample size over filtered count.
hits_estimate_inverse_ratio(filtered_count, snuba_count, snuba_total) ==
    IF filtered_count = 0 THEN 0
    ELSE FloatToInt(FloatMul(FloatDiv(snuba_count, filtered_count), snuba_total))

\* The product rounded to the nearest integer instead of truncated.
hits_estimate_rounded(filtered_count, snuba_count, snuba_total) ==
    (2 * filtered_count * snuba_total + snuba_count) \div (2 * snuba_count)

\* hit_ratio = filtered_count / float(snuba_count); hits = int(hit_ratio * snuba_total)
hits_estimate(filtered_count, snuba_count, snuba_total) ==
    FloatToInt(FloatMul(FloatDiv(filtered_count, snuba_count), snuba_total))

\* Lines 629-640: 0 when the sample is empty, the estimate otherwise.
sample_hits(filtered_count, snuba_count, snuba_total) ==
    IF snuba_count = 0 THEN 0 ELSE hits_estimate(filtered_count, snuba_count, snuba_total)

\* ------------------------------------------------------------------ inputs
MaxCandidates == 2   \* snuba.search.max-pre-snuba-candidates is 1 or MaxCandidates
MaxChunkSize == 3    \* snuba.search.max-chunk-size is at most MaxChunkSize
MaxTime == 1         \* snuba.search.max-total-chunk-time-seconds, in ticks
MaxSampleSize == 2   \* snuba.search.hits-sample-size is 1 or MaxSampleSize

Day == 1440
LimitChoices == {1, MaxLimit}
CursorChoices ==
    {None, Some([value |-> 1, offset |-> 0, is_prev |-> FALSE]),
           Some([value |-> MaxScore, offset |-> 0, is_prev |-> TRUE])}
SortByChoices == {"date", "priority", "trend"}
EnvironmentChoices == {<<>>, <<1>>}
SearchFilterChoices ==
    { <<>>,
      <<[name |-> "status", operator |-> "=", value |-> 0, is_tag |-> FALSE]>>,
      <<[name |-> "browser", operator |-> "=", value |-> 0, is_tag |-> TRUE]>>,
      <<[name |-> "date", operator |-> ">=", value |-> Now + Day, is_tag |-> FALSE]>>,
      <<[name |-> "date", operator |-> "<", value |-> Now - 100 * Day, is_tag |-> FALSE],
        [name |-> "date", operator |-> "<=", value |-> Now - 120 * Day, is_tag |-> FALSE]>> }
DateFromChoices == {None, Some(Now + Day)}
DateToChoices == {None, Some(Now - Day)}
RetentionChoices == {None}
\* snuba.search.chunk-growth-rate with snuba.search.max-chunk-size. The rate
\* is a numerator/denominator pair: 1.5 and 2.0 are exact doubles, so
\* int(chunk_limit * chunk_growth) is the floor of the exact product.
OptionChoices ==
    {<<<<3, 2>>, 1>>, <<<<2, 1>>, MaxChunkSize - 1>>, <<<<2, 1>>, MaxChunkSize>>,
     <<<<3, 2>>, MaxChunkSize>>}

\* ------------------------------------------------------------------ executors' tables
sort_strategies(exec) ==
    IF exec = "postgres"
    THEN [date |-> "last_seen", freq |-> "times_seen", new |-> "first_seen", priority |-> "priority"]
    ELSE [date |-> "events.last_seen", freq |-> "times_seen", new |-> "events.first_seen",
          priority |-> "priority"]

issue_only_fields(exec) ==
    IF exec = "postgres"
    THEN {"query", "status", "bookmarked_by", "assigned_to", "unassigned", "subscribed_by",
          "active_at", "first_release", "first_seen"}
    ELSE {"query", "bookmarked_by", "assigned_to", "unassigned", "subscribed_by"}

\* ------------------------------------------------------------------ a query's locals
NoResult == [status |-> "none", value |-> RefEmpty]
NoRequest == [window |-> [retention_date |-> 0, start |-> 0, end |-> 0],
              end_given |-> FALSE, fast |-> FALSE, sort_known |-> TRUE]

\* The analytical store's content when a query starts: every group tied at
\* the top score, scores that differ with one group without events, no events.
StoreChoices ==
    {[i \in Ids |-> MaxScore], [i \in Ids |-> i % (MaxScore + 1)], [i \in Ids |-> 0]}

NoSample == [filtered_count |-> 0, snuba_count |-> 0, snuba_total |-> 0]
NoWindowArgs == [now |-> Now, retention_window_start |-> None, search_filters |-> <<>>,
                 date_from |-> None, date_to |-> None]
NoWindow == [resolved |-> FALSE, retention_date |-> 0, start |-> 0, end |-> 0, empty |-> FALSE]

\* No query has started.
Idle ==
    /\ EMPTY_RESULT = EmptyPage
    /\ executor = "postgres"
    /\ pc = "idle"
    /\ limit = 1
    /\ cursor = None
    /\ count_hits = FALSE
    /\ group_ids = <<>>
    /\ too_many_candidates = FALSE
    /\ max_candidates = 0
    /\ chunk_growth = <<1, 1>>
    /\ max_chunk_size = 1
    /\ max_time = 1
    /\ chunk_limit = 1
    /\ offset = 0
    /\ num_chunks = 0
    /\ hits = None
    /\ result_groups = <<>>
    /\ result_group_ids = {}
    /\ paginator_results = RefEmpty
    /\ more_results = FALSE
    /\ elapsed = 0
    /\ calls = <<>>
    /\ pg_calls = <<>>
    /\ request = NoRequest
    /\ result = NoResult
    /\ drifted = FALSE
    /\ hydration = None
    /\ hits_invoked = <<>>
    /\ failure = None

\* The relational store's content when a query starts: the queryset selects
\* no group, one, two that are not neighbours, all but the first, all.
MatchingChoices == {{}, {1}, {1, NumIds}, Ids \ {1}, Ids}

Init ==
    /\ snuba \in StoreChoices
    /\ matching \in MatchingChoices
    /\ Idle
    /\ sampled = NoSample
    /\ estimate = None
    /\ window_args = NoWindowArgs
    /\ window_out = NoWindow
    /\ earlier = None

\* ------------------------------------------------------------------ hit counting
\* Sampling is chosen only when the candidates were too many and a cursor was given.
postgres_calculate_hits_needing_both(store, queryset, group_ids_, snuba_groups, too_many_, cursor_, count_hits_, sample_size) ==
    IF count_hits_ = FALSE
    THEN [raised |-> FALSE, hits |-> None, calls |-> <<>>, pg_calls |-> <<>>]
    ELSE IF too_many_ /\ cursor_ # None
    THEN LET call == snuba_search(store, None, <<>>, Some(sample_size), 0, TRUE)
         IN [raised |-> FALSE,
             hits |-> Some(sample_hits(Cardinality(queryset \cap gids(call.rows)),
                                       Len(call.rows), call.total)),
             calls |-> <<call>>,
             pg_calls |-> IF call.rows = <<>> THEN <<>> ELSE <<"count">>]
    ELSE [raised |-> FALSE, hits |-> Some(Len(snuba_groups)), calls |-> <<>>, pg_calls |-> <<>>]

\* Sampling is chosen only when a cursor was given: with too many candidates
\* and no cursor no branch assigns `hits`.
postgres_calculate_hits_sampling_for_cursor(store, queryset, group_ids_, snuba_groups, too_many_, cursor_, count_hits_, sample_size) ==
    IF count_hits_ = FALSE
    THEN [raised |-> FALSE, hits |-> None, calls |-> <<>>, pg_calls |-> <<>>]
    ELSE IF cursor_ # None
    THEN LET call == snuba_search(store, None, <<>>, Some(sample_size), 0, TRUE)
         IN [raised |-> FALSE,
             hits |-> Some(sample_hits(Cardinality(queryset \cap gids(call.rows)),
                                       Len(call.rows), call.total)),
             calls |-> <<call>>,
             pg_calls |-> IF call.rows = <<>> THEN <<>> ELSE <<"count">>]
    ELSE IF group_ids_ # <<>>
    THEN [raised |-> FALSE, hits |-> Some(Len(snuba_groups)), calls |-> <<>>, pg_calls |-> <<>>]
    ELSE [raised |-> TRUE, hits |-> None, calls |-> <<>>, pg_calls |-> <<>>]

\* PostgresSnubaQueryExecutor.calculate_hits: the value returned (raised when
\* no branch assigns `hits`), with the store calls it made.
postgres_calculate_hits(store, queryset, group_ids_, snuba_groups, too_many_, cursor_, count_hits_, sample_size) ==
    IF count_hits_ = FALSE
    THEN [raised |-> FALSE, hits |-> None, calls |-> <<>>, pg_calls |-> <<>>]
    ELSE IF too_many_ \/ cursor_ # None
    THEN LET call == snuba_search(store, None, <<>>, Some(sample_size), 0, TRUE)
             snuba_count == Len(call.rows)
             filtered_count == Cardinality(queryset \cap gids(call.rows))
         IN [raised |-> FALSE,
             hits |-> Some(sample_hits(filtered_count, snuba_count, call.total)),
             calls |-> <<call>>,
             pg_calls |-> IF snuba_count = 0 THEN <<>> ELSE <<"count">>]
    ELSE IF group_ids_ # <<>>
    THEN [raised |-> FALSE, hits |-> Some(Len(snuba_groups)), calls |-> <<>>, pg_calls |-> <<>>]
    ELSE [raised |-> TRUE, hits |-> None, calls |-> <<>>, pg_calls |-> <<>>]

\* SnubaOnlyQueryExecutor.calculate_hits: the total of one more ranked call.
snuba_only_calculate_hits(store, count_hits_) ==
    LET call == snuba_search(store, None, <<>>, None, 0, FALSE)
    IN [raised |-> FALSE, hits |-> Some(call.total), calls |-> <<call>>, pg_calls |-> <<>>]

\* ------------------------------------------------------------------ the loop's steps
\* The grown limit is not capped.
grow_chunk_uncapped(chunk_limit_, chunk_growth_, max_chunk_size_) ==
    (chunk_limit_ * chunk_growth_[1]) \div chunk_growth_[2]

\* The grown limit wraps around at the maximum instead of stopping there.
grow_chunk_wrapping(chunk_limit_, chunk_growth_, max_chunk_size_) ==
    LET grown == (chunk_limit_ * chunk_growth_[1]) \div chunk_growth_[2]
    IN IF grown > max_chunk_size_ THEN grown - max_chunk_size_ ELSE grown

\* chunk_limit = min(int(chunk_limit * chunk_growth), max_chunk_size)
grow_chunk(chunk_limit_, chunk_growth_, max_chunk_size_) ==
    Min2((chunk_limit_ * chunk_growth_[1]) \div chunk_growth_[2], max_chunk_size_)

\* but if we have group_ids always query for at least that many items
floor_chunk(chunk_limit_, group_ids_) == Max2(chunk_limit_, Len(group_ids_))

\* more_results = count >= limit and (offset + limit) < total
more_results_of(count, limit_, offset_, total) == count >= limit_ /\ (offset_ + limit_) < total

\* An identifier seen before takes the score of the latest chunk.
accumulate_last_wins(groups, seen, filtered_group_ids, snuba_groups) ==
    LET fresh == SelectSeq(filtered_group_ids, LAMBDA g : g \notin seen)
        entry(g) == <<g, group_to_score(snuba_groups, g)>>
    IN [result_groups |->
            [k \in 1..Len(groups) |->
                IF groups[k][1] \in Range(filtered_group_ids) THEN entry(groups[k][1])
                                                              ELSE groups[k]]
            \o [k \in 1..Len(fresh) |-> entry(fresh[k])],
        result_group_ids |-> seen \cup Range(filtered_group_ids)]

\* The post-filter loop: append the filtered ids not seen before, each with
\* the score of this chunk.
RECURSIVE accumulate(_, _, _, _)
accumulate(groups, seen, filtered_group_ids, snuba_groups) ==
    IF filtered_group_ids = <<>> THEN [result_groups |-> groups, result_group_ids |-> seen]
    ELSE LET group_id == Head(filtered_group_ids)
         IN IF group_id \in seen
            THEN accumulate(groups, seen, Tail(filtered_group_ids), snuba_groups)
            ELSE accumulate(Append(groups, <<group_id, group_to_score(snuba_groups, group_id)>>),
                            seen \cup {group_id}, Tail(filtered_group_ids), snuba_groups)

\* The candidate lists the pre-filter may return: up to max_candidates + 1 of
\* the matching ids, in the order the database yields them.
candidate_lists(queryset, max_candidates_) ==
    UNION {Orders(S) : S \in {T \in SUBSET queryset :
                               Cardinality(T) = Min2(Cardinality(queryset), max_candidates_ + 1)}}

\* The cap is taken to be reached by max_candidates identifiers already.
too_many_at_cap(ids, max_candidates_) == Len(ids) >= max_candidates_

\* Line 411: len(group_ids) > max_candidates
too_many(ids, max_candidates_) == Len(ids) > max_candidates_

\* The loop goes on although candidates were forwarded.
loop_break_without_candidates(group_ids_, num_results, limit_, more_results_) ==
    num_results >= limit_ \/ ~more_results_

\* Line 534: group_ids or len(paginator_results.results) >= limit or not more_results
loop_break(group_ids_, num_results, limit_, more_results_) ==
    group_ids_ # <<>> \/ num_results >= limit_ \/ ~more_results_

\* The fast-path test of lines 355-366.
is_django_only(exec, cursor_, sort_by, environments, search_filters) ==
    /\ cursor_ = None
    /\ sort_by = "date"
    /\ environments = <<>>
    /\ \A k \in 1..Len(search_filters) :
         search_filters[k].name \in issue_only_fields(exec) \cup {"date"}

\* The test of line 349 taken the other way round.
fast_path_needs_end_date(end_given, django_only) == end_given /\ django_only

\* Lines 349-365: the relational-only return sits inside `if not end:`.
takes_fast_path(end_given, django_only) == ~end_given /\ django_only

\* Locals a query has not assigned.
NoChunkOptions == chunk_growth' = <<1, 1>> /\ max_chunk_size' = 1 /\ max_time' = 1
NoOptions == max_candidates' = 0 /\ NoChunkOptions
NoCandidates == group_ids' = <<>> /\ too_many_candidates' = FALSE

Returned(value) == [status |-> "returned", value |-> value]
Raised == [status |-> "raised", value |-> RefEmpty]

\* ------------------------------------------------------------------ PostgresSnubaQueryExecutor.query
\* What the caller asked, kept to state the claims: the window its dates
\* resolve to, whether an end date was given, whether it meets the fast-path
\* conditions, whether its sort key is registered.
request_of(exec, cursor_, sort_by, environments, search_filters, date_from, date_to, rws) ==
    LET end0 == explicit_end(search_filters, date_to)
    IN [window |-> resolve_window(Now, rws, search_filters, date_from,
                                  IF end0 = None THEN Now + ALLOWED_FUTURE_DELTA ELSE Val(end0)),
        end_given |-> end0 # None,
        fast |-> is_django_only(exec, cursor_, sort_by, environments, search_filters),
        sort_known |-> sort_by \in DOMAIN sort_strategies(exec)]

\* Lines 342-443 for one set of arguments and option values: resolve the
\* window, take the fast path or return the empty result, fetch the
\* candidates, read the options and enter the loop with fresh locals.
PostgresQueryWith(limit_, cursor_, count_hits_, req, max_candidates_, opts, time) ==
    /\ executor' = "postgres"
    /\ limit' = limit_
    /\ cursor' = cursor_
    /\ count_hits' = count_hits_
    /\ request' = req
    /\ calls' = <<>>
    /\ hits' = None
    /\ result_groups' = <<>>
    /\ result_group_ids' = {}
    /\ paginator_results' = RefEmpty
    /\ more_results' = FALSE
    /\ elapsed' = 0
    /\ offset' = 0
    /\ num_chunks' = 0
    /\ drifted' = FALSE
    /\ hydration' = None
    /\ hits_invoked' = <<>>
    /\ failure' = None
    /\ UNCHANGED <<storeVars, EMPTY_RESULT>>
    /\ IF takes_fast_path(req.end_given, req.fast)
       THEN \* a simple django-only search
            /\ pc' = "done"
            /\ pg_calls' = <<"order_by_last_seen">>
            /\ result' = Returned(DateTimePaginator_get_result(matching, limit_, count_hits_))
            /\ NoOptions /\ NoCandidates /\ chunk_limit' = 1
       ELSE IF window_is_empty(req.window.start, req.window.end, req.window.retention_date)
       THEN /\ pc' = "done"
            /\ result' = Returned(RefEmpty)
            /\ pg_calls' = <<>>
            /\ NoOptions /\ NoCandidates /\ chunk_limit' = 1
       ELSE \E ids \in candidate_lists(matching, max_candidates_) :
              /\ max_candidates' = max_candidates_
              /\ pg_calls' = <<"candidates">>
              /\ IF ids = <<>>
                 THEN /\ pc' = "done"
                      /\ result' = Returned(RefEmpty)
                      /\ NoChunkOptions /\ NoCandidates /\ chunk_limit' = 1
                 ELSE /\ too_many_candidates' = too_many(ids, max_candidates_)
                      /\ group_ids' = IF too_many(ids, max_candidates_) THEN <<>> ELSE ids
                      /\ IF ~req.sort_known
                         THEN \* self.sort_strategies[sort_by] raises KeyError
                              /\ pc' = "done"
                              /\ result' = Raised
                              /\ NoChunkOptions /\ chunk_limit' = 1
                         ELSE /\ chunk_growth' = opts[1]
                              /\ max_chunk_size' = opts[2]
                              /\ max_time' = time
                              /\ chunk_limit' = limit_
                              /\ pc' = "loop"
                              /\ result' = NoResult

\* query() called with any arguments, under any option values.
PostgresQuery ==
    /\ pc = "idle"
    /\ UNCHANGED sideVars
    /\ \E limit_ \in LimitChoices, cursor_ \in CursorChoices, count_hits_ \in BOOLEAN,
          sort_by \in SortByChoices, environments \in EnvironmentChoices,
          search_filters \in SearchFilterChoices, date_from \in DateFromChoices,
          date_to \in DateToChoices, retention_window_start \in RetentionChoices,
          max_candidates_ \in {1, MaxCandidates}, opts \in OptionChoices, time \in {MaxTime} :
         PostgresQueryWith(limit_, cursor_, count_hits_,
                           request_of("postgres", cursor_, sort_by, environments, search_filters,
                                      date_from, date_to, retention_window_start),
                           max_candidates_, opts, time)

\* A pass still starts when the elapsed time equals the budget.
within_budget_inclusive(elapsed_, max_time_) == elapsed_ <= max_time_

\* Line 445 / 783: while (time.time() - time_start) < max_time
within_budget(elapsed_, max_time_) == elapsed_ < max_time_

\* The estimator is asked on every pass.
needs_hits_always(hits_) == TRUE

\* Line 504 / 815: `if hits is None:`
needs_hits(hits_) == hits_ = None

\* The invocations of calculate_hits so far, this pass's included.
invoked(before, hits_, pass, returned) ==
    IF needs_hits(hits_) THEN Append(before, [pass |-> pass, hits |-> returned]) ELSE before

\* A chunk without rows goes through the rest of the pass like any other.
empty_chunk_ignored(snuba_groups) == FALSE

\* Lines 472-473 / 808-809: `if not snuba_groups: break`
empty_chunk(snuba_groups) == snuba_groups = <<>>

\* The offset is set to the last row count instead of being advanced by it.
next_offset_last_count(offset_, count) == count

\* The offset stays where it was.
next_offset_stuck(offset_, count) == offset_

\* Line 470 / 806: offset += len(snuba_groups)
next_offset(offset_, count) == offset_ + count

\* Lines 445-535: one pass of the while loop, the clock advancing by `took`.
PostgresIterationTaking(took) ==
    /\ pc = "loop"
    /\ executor = "postgres"
    /\ within_budget(elapsed, max_time)
    /\ LET limit_grown == grow_chunk(chunk_limit, chunk_growth, max_chunk_size)
           limit_now == floor_chunk(limit_grown, group_ids)
           call == snuba_search(snuba, cursor, group_ids, Some(limit_now), offset, FALSE)
           snuba_groups == call.rows
       IN /\ num_chunks' = num_chunks + 1
          /\ chunk_limit' = limit_now
          /\ more_results' = more_results_of(Len(snuba_groups), limit, offset, call.total)
          /\ offset' = next_offset(offset, Len(snuba_groups))
          /\ elapsed' = Min2(elapsed + took, max_time)
          /\ UNCHANGED <<storeVars, EMPTY_RESULT, argVars, optVars, candVars, request, drifted, hydration, failure>>
          /\ IF empty_chunk(snuba_groups)
             THEN /\ pc' = "finalize"
                  /\ calls' = Append(calls, call)
                  /\ UNCHANGED <<hits, result_groups, result_group_ids, paginator_results,
                                 pg_calls, result, hits_invoked>>
             ELSE \E filtered_group_ids \in Orders(matching \cap gids(snuba_groups)),
                     sample_size \in {1, MaxSampleSize} :
                    LET acc == IF group_ids # <<>>
                               THEN [result_groups |-> snuba_groups,
                                     result_group_ids |-> result_group_ids]
                               ELSE accumulate(result_groups, result_group_ids,
                                               filtered_group_ids, snuba_groups)
                        counted == IF needs_hits(hits)
                                   THEN postgres_calculate_hits(snuba, matching, group_ids,
                                            snuba_groups, too_many_candidates, cursor,
                                            count_hits, sample_size)
                                   ELSE [raised |-> FALSE, hits |-> hits, calls |-> <<>>,
                                         pg_calls |-> <<>>]
                        page == SequencePaginator_get_result(acc.result_groups, limit, cursor,
                                                             counted.hits)
                    IN /\ result_groups' = acc.result_groups
                       /\ result_group_ids' = acc.result_group_ids
                       /\ hits_invoked' = invoked(hits_invoked, hits, num_chunks', counted.hits)
                       /\ calls' = Append(calls, call) \o counted.calls
                       /\ pg_calls' = pg_calls
                                      \o (IF group_ids # <<>> THEN <<>> ELSE <<"post_filter">>)
                                      \o counted.pg_calls
                       /\ IF counted.raised
                          THEN /\ pc' = "done"
                               /\ result' = Raised
                               /\ UNCHANGED <<hits, paginator_results>>
                          ELSE /\ hits' = counted.hits
                               /\ paginator_results' = page
                               /\ pc' = IF loop_break(group_ids, Len(page.results), limit,
                                                       more_results')
                                        THEN "finalize" ELSE "loop"
                               /\ UNCHANGED result

\* A pass returns at once, or only when the budget is used up.
PostgresIteration ==
    /\ UNCHANGED sideVars
    /\ \E took \in {0, max_time} : PostgresIterationTaking(took)

\* Group.objects.in_bulk(ids): the groups still there, all of them or all
\* but the first, deleted or merged since the analytical read.
in_bulk(ids) == IF ids = <<>> THEN {{}} ELSE {Range(ids), Range(Tail(ids))}

\* Every identifier is kept, found or not.
hydrate_keeping_missing(results, groups) == results

\* Line 559: [groups[k] for k in paginator_results.results if k in groups]
hydrate(results, groups) == SelectSeq(results, LAMBDA k : k \in groups)

\* A full page always promises a next one.
patch_next_when_full(page, limit_, more_results_) ==
    IF Len(page.results) = limit_ THEN [page EXCEPT !.next.has_results = TRUE] ELSE page

\* Lines 543-548 / 840-841: a page of exactly `limit` results with more rows
\* in the analytical store has a next page.
patch_next(page, limit_, more_results_) ==
    IF Len(page.results) = limit_ /\ more_results_
    THEN [page EXCEPT !.next.has_results = TRUE] ELSE page

\* Any cursor promises a previous page.
patch_prev_for_any_cursor(page, cursor_) ==
    IF cursor_ # None THEN [page EXCEPT !.prev.has_results = TRUE] ELSE page

\* Lines 550-554 / 843-844: a cursor that is not a prev cursor of an empty
\* page has a previous page.
patch_prev(page, cursor_) ==
    IF cursor_ # None /\ (~Val(cursor_).is_prev \/ Len(page.results) > 0)
    THEN [page EXCEPT !.prev.has_results = TRUE] ELSE page

\* Lines 543-561: patch the cursors' flags, hydrate the groups, return.
Finalize ==
    /\ pc = "finalize" \/ (pc = "loop" /\ ~within_budget(elapsed, max_time))
    /\ UNCHANGED sideVars
    /\ LET p0 == Deref(paginator_results, EMPTY_RESULT)
           p1 == patch_next(p0, limit, more_results)
           p2 == patch_prev(p1, cursor)
       IN \E groups \in in_bulk(p2.results) :
            LET p3 == [p2 EXCEPT !.results = hydrate(p2.results, groups)]
            IN /\ IF paginator_results.shared
                  THEN /\ EMPTY_RESULT' = p3
                       /\ UNCHANGED paginator_results
                  ELSE /\ paginator_results' = p3
                       /\ UNCHANGED EMPTY_RESULT
               /\ result' = Returned(IF paginator_results.shared THEN RefEmpty ELSE p3)
               /\ pg_calls' = Append(pg_calls, "in_bulk")
               /\ hydration' = Some([page |-> p2, groups |-> groups])
               /\ pc' = "done"
               /\ UNCHANGED <<storeVars, argVars, optVars, candVars, chunk_limit, offset,
                              num_chunks, hits, result_groups, result_group_ids, more_results,
                              elapsed, calls, request, drifted, failure, hits_invoked>>

\* ------------------------------------------------------------------ SnubaOnlyQueryExecutor.query
\* Lines 746-781 for one set of arguments and option values: resolve the
\* window, return the empty result or enter the loop with fresh locals.
SnubaOnlyQueryWith(limit_, cursor_, count_hits_, req, opts, time) ==
    /\ executor' = "snuba_only"
    /\ limit' = limit_
    /\ cursor' = cursor_
    /\ count_hits' = count_hits_
    /\ request' = req
    /\ calls' = <<>>
    /\ pg_calls' = <<>>
    /\ hits' = None
    /\ result_groups' = <<>>
    /\ result_group_ids' = {}
    /\ paginator_results' = RefEmpty
    /\ more_results' = FALSE
    /\ elapsed' = 0
    /\ offset' = 0
    /\ num_chunks' = 0
    /\ drifted' = FALSE
    /\ hydration' = None
    /\ hits_invoked' = <<>>
    /\ failure' = None
    /\ max_candidates' = 0
    /\ NoCandidates
    /\ UNCHANGED <<storeVars, EMPTY_RESULT>>
    /\ IF window_is_empty(req.window.start, req.window.end, req.window.retention_date)
       THEN /\ pc' = "done"
            /\ result' = Returned(RefEmpty)
            /\ NoChunkOptions /\ chunk_limit' = 1
       ELSE IF ~req.sort_known
       THEN /\ pc' = "done"
            /\ result' = Raised
            /\ NoChunkOptions /\ chunk_limit' = 1
       ELSE /\ chunk_growth' = opts[1]
            /\ max_chunk_size' = opts[2]
            /\ max_time' = time
            /\ chunk_limit' = limit_
            /\ pc' = "loop"
            /\ result' = NoResult

\* query() called with any arguments, under any option values.
SnubaOnlyQuery ==
    /\ pc = "idle"
    /\ UNCHANGED sideVars
    /\ \E limit_ \in LimitChoices, cursor_ \in CursorChoices, count_hits_ \in BOOLEAN,
          sort_by \in SortByChoices, environments \in EnvironmentChoices,
          search_filters \in SearchFilterChoices, date_from \in DateFromChoices,
          date_to \in DateToChoices, retention_window_start \in RetentionChoices,
          opts \in OptionChoices, time \in {MaxTime} :
         SnubaOnlyQueryWith(limit_, cursor_, count_hits_,
                            request_of("snuba_only", cursor_, sort_by, environments,
                                       search_filters, date_from, date_to,
                                       retention_window_start),
                            opts, time)

\* Lines 783-838: one pass of the while loop, the clock advancing by `took`.
SnubaOnlyIterationTaking(took) ==
    /\ pc = "loop"
    /\ executor = "snuba_only"
    /\ within_budget(elapsed, max_time)
    /\ LET limit_now == grow_chunk(chunk_limit, chunk_growth, max_chunk_size)
           call == snuba_search(snuba, cursor, <<>>, Some(limit_now), offset, FALSE)
           snuba_groups == call.rows
       IN /\ num_chunks' = num_chunks + 1
          /\ chunk_limit' = limit_now
          /\ more_results' = more_results_of(Len(snuba_groups), limit, offset, call.total)
          /\ offset' = next_offset(offset, Len(snuba_groups))
          /\ elapsed' = Min2(elapsed + took, max_time)
          /\ UNCHANGED <<storeVars, EMPTY_RESULT, argVars, optVars, candVars, request, pg_calls,
                         drifted, hydration, failure>>
          /\ IF empty_chunk(snuba_groups)
             THEN /\ pc' = "finalize"
                  /\ calls' = Append(calls, call)
                  /\ UNCHANGED <<hits, result_groups, result_group_ids, paginator_results, result,
                                 hits_invoked>>
             ELSE \E dict_order \in Orders(gids(snuba_groups)) :
                    LET acc == accumulate(result_groups, result_group_ids, dict_order, snuba_groups)
                        counted == IF needs_hits(hits)
                                   THEN snuba_only_calculate_hits(snuba, count_hits)
                                   ELSE [raised |-> FALSE, hits |-> hits, calls |-> <<>>,
                                         pg_calls |-> <<>>]
                        page == SequencePaginator_get_result(acc.result_groups, limit, cursor,
                                                             counted.hits)
                    IN /\ result_groups' = acc.result_groups
                       /\ result_group_ids' = acc.result_group_ids
                       /\ hits_invoked' = invoked(hits_invoked, hits, num_chunks', counted.hits)
                       /\ calls' = Append(calls, call) \o counted.calls
                       /\ hits' = counted.hits
                       /\ paginator_results' = page
                       /\ pc' = IF Len(page.results) >= limit \/ ~more_results'
                                THEN "finalize" ELSE "loop"
                       /\ UNCHANGED result

\* A pass returns at once, or only when the budget is used up.
SnubaOnlyIteration ==
    /\ UNCHANGED sideVars
    /\ \E took \in {0, max_time} : SnubaOnlyIterationTaking(took)

\* ------------------------------------------------------------------ environment
\* Events arrive or expire while a query runs: the score of the first or
\* of the last group changes.
SnubaDrift ==
    /\ pc = "loop"
    /\ UNCHANGED sideVars
    /\ ~drifted
    /\ drifted' = TRUE
    /\ \E i \in {1, NumIds}, s \in 0..MaxScore :
         /\ s # snuba[i]
         /\ snuba' = [snuba EXCEPT ![i] = s]
    /\ UNCHANGED <<matching, EMPTY_RESULT, argVars, optVars, candVars, loopVars, pc, logVars,
                   request, result, hydration, failure>>

\* The first or the last group starts or stops satisfying the relational
\* predicates while a query runs.
PostgresDrift ==
    /\ pc = "loop"
    /\ UNCHANGED sideVars
    /\ ~drifted
    /\ drifted' = TRUE
    /\ \E i \in {1, NumIds} :
         matching' = IF i \in matching THEN matching \ {i} ELSE matching \cup {i}
    /\ UNCHANGED <<snuba, EMPTY_RESULT, argVars, optVars, candVars, loopVars, pc, logVars,
                   request, result, hydration, failure>>

Next ==
    \/ PostgresQuery
    \/ PostgresIteration
    \/ SnubaOnlyQuery
    \/ SnubaOnlyIteration
    \/ Finalize
    \/ SnubaDrift
    \/ PostgresDrift

Spec == Init /\ [][Next]_vars

\* ------------------------------------------------------------------ the accumulator
\* The ranked calls of the loop, in order: those that carry a limit.
RankedCalls == SelectSeq(calls, LAMBDA c : c.referrer = "search" /\ c.limit # None)

\* C1: without forwarded candidates, a step of the query only appends to the
\* accumulator, entries already there keep their score, and no identifier is
\* held twice.
FirstSeenWins ==
    [][(group_ids = <<>> /\ group_ids' = <<>>) =>
         /\ Len(result_groups') >= Len(result_groups)
         /\ SubSeq(result_groups', 1, Len(result_groups)) = result_groups
         /\ \A i, j \in 1..Len(result_groups') :
              result_groups'[i][1] = result_groups'[j][1] => i = j]_vars

\* A later chunk repeated an accumulated identifier with another score.
FirstSeenWinsWitness ==
    /\ group_ids = <<>>
    /\ \E i, j \in 1..Len(RankedCalls) :
         /\ i < j
         /\ \E g \in Range(result_groups), r \in Range(RankedCalls[j].rows) :
              /\ g \in Range(RankedCalls[i].rows)
              /\ r[1] = g[1]
              /\ r[2] # g[2]
              /\ executor = "postgres" => g[1] \in matching

\* ------------------------------------------------------------------ the chunk limit
\* C2 as stated: no ranked call of the loop asks for more than max_chunk_size rows.
ChunkLimitWithinMax ==
    \A k \in 1..Len(RankedCalls) : Val(RankedCalls[k].limit) <= max_chunk_size

\* C2 as the code has it: no ranked call of the loop asks for more rows than
\* the larger of max_chunk_size and the number of forwarded candidates.
ChunkLimitWithinMaxOrCandidates ==
    \A k \in 1..Len(RankedCalls) :
       Val(RankedCalls[k].limit) <= Max2(max_chunk_size, Len(group_ids))

\* The candidates outnumber max_chunk_size and the call asks for all of them.
ChunkLimitWithinMaxOrCandidatesWitness ==
    /\ Len(group_ids) > max_chunk_size
    /\ Len(RankedCalls) = 1
    /\ Val(RankedCalls[1].limit) = Len(group_ids)

\* C3: with a growth rate of at least 1, each ranked call of the loop asks
\* for at least as many rows as the one before it.
ChunkLimitNonDecreasing ==
    chunk_growth[1] >= chunk_growth[2] =>
        \A k \in 1..(Len(RankedCalls) - 1) :
           Val(RankedCalls[k + 1].limit) >= Val(RankedCalls[k].limit)

\* The second iteration asked for more rows than the first.
ChunkLimitNonDecreasingWitness ==
    /\ Len(RankedCalls) >= 2
    /\ Val(RankedCalls[2].limit) > Val(RankedCalls[1].limit)

\* ------------------------------------------------------------------ the candidates
\* C4: a query enters the loop with the whole pre-filter result as group_ids
\* and too_many_candidates false when the pre-filter matches at most
\* max_candidates identifiers, and with no group_ids and too_many_candidates
\* true when it matches more; every ranked call carries the sorted group_ids
\* as its identifier restriction, or none when there are no group_ids.
CandidateCapBoundary ==
    [][/\ (pc = "idle" /\ pc' = "loop" /\ executor' = "postgres") =>
            IF Cardinality(matching) <= max_candidates'
            THEN /\ ~too_many_candidates'
                 /\ Len(group_ids') = Cardinality(matching)
                 /\ Range(group_ids') = matching
            ELSE /\ too_many_candidates'
                 /\ group_ids' = <<>>
       /\ \A k \in 1..Len(calls') :
            calls'[k].referrer = "search" =>
               calls'[k].issue = IF group_ids' = <<>> THEN None
                                 ELSE Some(sorted(Range(group_ids')))]_vars

\* Exactly max_candidates identifiers were found and the ranked call is restricted to them.
CandidateCapBoundaryWitness ==
    /\ executor = "postgres"
    /\ Len(group_ids) = max_candidates
    /\ ~too_many_candidates
    /\ Len(RankedCalls) = 1
    /\ RankedCalls[1].issue = Some(sorted(Range(group_ids)))

\* C5: a query with forwarded candidates runs the loop once: one ranked call,
\* at offset 0, asking for at least as many rows as there are candidates, and
\* the accumulator is the rows of that call.
SinglePassWithCandidates ==
    (executor = "postgres" /\ group_ids # <<>> /\ request.sort_known) =>
        /\ num_chunks <= 1
        /\ pc = "loop" => num_chunks = 0
        /\ pc \in {"finalize", "done"} =>
             /\ num_chunks = 1
             /\ Len(SelectSeq(calls, LAMBDA c : c.referrer = "search")) = 1
             /\ Len(RankedCalls) = 1
             /\ RankedCalls[1].offset = 0
             /\ Val(RankedCalls[1].limit) >= Len(group_ids)
             /\ result_groups = RankedCalls[1].rows

\* The loop ended after its first pass though the page was short and the
\* store had more rows: only the forwarded candidates ended it.
SinglePassWithCandidatesWitness ==
    /\ executor = "postgres"
    /\ group_ids # <<>>
    /\ pc = "finalize"
    /\ more_results
    /\ Len(paginator_results.results) < limit
    /\ result_groups # <<>>

\* ------------------------------------------------------------------ the hit count
SampleCalls == SelectSeq(calls, LAMBDA c : c.referrer = "search_sample")

\* The hit count the caller receives.
ReturnedHits == Deref(result.value, EMPTY_RESULT).hits

\* C6 as stated: a query that asked for the count and reached the loop
\* returns the sampling estimate of one unrestricted sample call when the
\* candidates were too many or a cursor was given, and otherwise the number
\* of rows of its single ranked call, without a sample call.
HitsStrategyAsStated ==
    (executor = "postgres" /\ pc = "done" /\ result.status = "returned" /\ count_hits
       /\ num_chunks >= 1) =>
        IF too_many_candidates \/ cursor # None
        THEN /\ Len(SampleCalls) = 1
             /\ SampleCalls[1].issue = None
             /\ SampleCalls[1].having = None
             /\ ReturnedHits # None
        ELSE /\ SampleCalls = <<>>
             /\ ReturnedHits = Some(Len(RankedCalls[1].rows))

\* C6 as the code has it: the pass of the loop that first gets rows from its
\* ranked call sets hits, when the count was asked for, to the sampling
\* estimate of one unrestricted sample call if the candidates were too many
\* or a cursor was given, and otherwise to the number of rows of the ranked
\* call without a sample call; a pass whose ranked call gets no row makes no
\* other call and leaves hits unknown.
HitsStrategy ==
    [][(executor = "postgres" /\ count_hits /\ hits = None /\ num_chunks' = num_chunks + 1) =>
         LET new == SubSeq(calls', Len(calls) + 1, Len(calls'))
         IN IF new[1].rows = <<>>
            THEN Len(new) = 1 /\ hits' = None
            ELSE IF too_many_candidates \/ cursor # None
            THEN /\ Len(new) = 2
                 /\ new[2].referrer = "search_sample"
                 /\ new[2].issue = None
                 /\ new[2].having = None
                 /\ hits' = Some(sample_hits(Cardinality(matching \cap gids(new[2].rows)),
                                             Len(new[2].rows), new[2].total))
            ELSE /\ Len(new) = 1
                 /\ hits' = Some(Len(new[1].rows))]_vars

\* A cursor was given with forwarded candidates, and the count came from a sample.
HitsStrategyWitness ==
    /\ executor = "postgres"
    /\ count_hits
    /\ cursor # None
    /\ group_ids # <<>>
    /\ Len(SampleCalls) = 1
    /\ hits # None
    /\ Val(hits) > 0

\* C7: a query that did not ask for the count returns an unknown hit count
\* and makes no call that serves counting: no sample call, no ranked call
\* without a limit.
CountingDisabledMeansUnknown ==
    (pc = "done" /\ ~count_hits /\ result.status = "returned") =>
        /\ ReturnedHits = None
        /\ \A k \in 1..Len(calls) :
             calls[k].referrer # "search_sample" /\ calls[k].limit # None

\* ------------------------------------------------------------------ the empty result
BeforeRetention ==
    /\ request.window.start = request.window.retention_date
    /\ request.window.end = request.window.retention_date

Inverted == request.window.start >= request.window.end

\* The query took the fast path of PostgresSnubaQueryExecutor.
FastPath == executor = "postgres" /\ request.fast /\ ~request.end_given

\* The candidate query of a query with a proper window found nothing.
ZeroCandidates ==
    /\ executor = "postgres"
    /\ ~FastPath
    /\ ~BeforeRetention /\ ~Inverted
    /\ num_chunks = 0
    /\ matching = {}

CanonicalEmpty == result = Returned(RefEmpty) /\ EMPTY_RESULT = EmptyPage

\* C10 as stated: a query whose window is before retention or inverted
\* returns the canonical empty result without a call to either store, and a
\* query whose pre-filter finds nothing returns it without an analytical call.
EmptyShortCircuitAsStated ==
    pc = "done" =>
        /\ (BeforeRetention \/ Inverted) => (CanonicalEmpty /\ calls = <<>> /\ pg_calls = <<>>)
        /\ ZeroCandidates => (CanonicalEmpty /\ calls = <<>>)

\* C10 as the code has it: the same, for the queries that do not take the
\* fast path, which answers from the relational store before the window is
\* looked at.
EmptyShortCircuit ==
    (pc = "done" /\ ~FastPath) =>
        /\ (BeforeRetention \/ Inverted) => (CanonicalEmpty /\ calls = <<>> /\ pg_calls = <<>>)
        /\ ZeroCandidates => (CanonicalEmpty /\ calls = <<>>)

\* An end date before retention was given: both ends were clamped to the retention date.
EmptyShortCircuitWitness ==
    /\ pc = "done"
    /\ executor = "postgres"
    /\ request.end_given
    /\ BeforeRetention
    /\ CanonicalEmpty

\* ------------------------------------------------------------------ the estimator alone
MaxSampleCount == 11   \* rows of a sample
MaxTotal == 55         \* rows the sample query counts

\* The counts a sample yields: the filtered rows are among the sampled rows,
\* the sampled rows among the rows counted.
SampleChoices ==
    {s \in [filtered_count : 0..MaxSampleCount, snuba_count : 0..MaxSampleCount,
            snuba_total : 0..MaxTotal] :
       s.filtered_count <= s.snuba_count /\ s.snuba_count <= s.snuba_total}

HitsInit ==
    /\ snuba = [i \in Ids |-> 0]
    /\ matching = {}
    /\ Idle
    /\ sampled \in SampleChoices
    /\ estimate = None
    /\ window_args = NoWindowArgs
    /\ window_out = NoWindow
    /\ earlier = None

\* Lines 629-640 applied to the counts.
EstimateHits ==
    /\ estimate = None
    /\ estimate' = Some(sample_hits(sampled.filtered_count, sampled.snuba_count,
                                    sampled.snuba_total))
    /\ UNCHANGED <<queryVars, sampled, windowVars, earlier>>

HitsNext == EstimateHits

SpecHits == HitsInit /\ [][HitsNext]_vars

\* C8: with a non-empty sample, the estimate lies between 0 and the total
\* the sample query counted.
HitEstimateWithinTotal ==
    (estimate # None /\ sampled.snuba_count > 0)
        => (0 <= Val(estimate) /\ Val(estimate) <= sampled.snuba_total)

\* An estimate strictly inside the range, from a sample only part of which passed the filter.
HitEstimateWithinTotalWitness ==
    /\ estimate # None
    /\ 0 < sampled.filtered_count /\ sampled.filtered_count < sampled.snuba_count
    /\ 0 < Val(estimate) /\ Val(estimate) < sampled.snuba_total

\* n / d rounded to the nearest integer, halves away from zero, for n >= 0, d > 0.
RoundNearest(n, d) == (2 * n + d) \div (2 * d)

\* C9 as stated: the estimate is 0 for an empty sample and otherwise
\* (filtered_count / snuba_count) * snuba_total rounded to the nearest integer.
HitEstimateIsRounded ==
    estimate # None =>
        Val(estimate) = IF sampled.snuba_count = 0 THEN 0
                        ELSE RoundNearest(sampled.filtered_count * sampled.snuba_total,
                                          sampled.snuba_count)

\* C9 as the code has it: the estimate is 0 for an empty sample and otherwise
\* the double product truncated: the floor of the exact quotient, or one less
\* where the exact quotient is an integer the double product falls short of.
HitEstimateIsTruncated ==
    estimate # None =>
        IF sampled.snuba_count = 0 THEN Val(estimate) = 0
        ELSE LET n == sampled.filtered_count * sampled.snuba_total
                 c == sampled.snuba_count
             IN \/ Val(estimate) = n \div c
                \/ n % c = 0 /\ Val(estimate) = (n \div c) - 1

\* The double product falls short of an integer quotient: 3 / 11.0 * 55 is 14.
HitEstimateIsTruncatedWitness ==
    /\ estimate # None
    /\ sampled.snuba_count > 0
    /\ (sampled.filtered_count * sampled.snuba_total) % sampled.snuba_count = 0
    /\ Val(estimate) = ((sampled.filtered_count * sampled.snuba_total) \div sampled.snuba_count) - 1
\* ------------------------------------------------------------------ queries in sequence
\* One process serves one query after another: every query() call starts
\* with fresh locals, the stores and the class attribute EMPTY_RESULT stay.
SeqInit ==
    /\ snuba \in StoreChoices
    /\ matching \in MatchingChoices
    /\ Idle
    /\ sampled = NoSample
    /\ estimate = None
    /\ window_args = NoWindowArgs
    /\ window_out = NoWindow
    /\ earlier = None

\* The query has returned or raised; the executor is free for the next call.
NextQuery ==
    /\ pc = "done"
    /\ earlier = None
    /\ pc' = "idle"
    /\ executor' = "postgres"
    /\ limit' = 1
    /\ cursor' = None
    /\ count_hits' = FALSE
    /\ NoOptions /\ NoCandidates
    /\ chunk_limit' = 1
    /\ offset' = 0
    /\ num_chunks' = 0
    /\ hits' = None
    /\ result_groups' = <<>>
    /\ result_group_ids' = {}
    /\ paginator_results' = RefEmpty
    /\ more_results' = FALSE
    /\ elapsed' = 0
    /\ calls' = <<>>
    /\ pg_calls' = <<>>
    /\ request' = NoRequest
    /\ result' = NoResult
    /\ drifted' = FALSE
    /\ hydration' = None
    /\ hits_invoked' = <<>>
    /\ failure' = None
    /\ UNCHANGED <<storeVars, EMPTY_RESULT, sideVars>>

\* What a finished run gave its caller, and how far its loop went.
outcome ==
    [status |-> result.status,
     page |-> Deref(result.value, EMPTY_RESULT),
     num_chunks |-> num_chunks,
     calls |-> calls,
     hydration |-> hydration]

\* The caller issues the finished query once more: the same executor, the
\* same arguments and the same option values, against the stores as they are.
RepeatQuery ==
    /\ pc = "done"
    /\ earlier = None
    /\ earlier' = Some(outcome)
    /\ UNCHANGED pureVars
    /\ IF executor = "postgres"
       THEN PostgresQueryWith(limit, cursor, count_hits, request, max_candidates,
                              <<chunk_growth, max_chunk_size>>, max_time)
       ELSE SnubaOnlyQueryWith(limit, cursor, count_hits, request,
                               <<chunk_growth, max_chunk_size>>, max_time)

SeqNext ==
    \/ PostgresQuery
    \/ PostgresIteration
    \/ SnubaOnlyQuery
    \/ SnubaOnlyIteration
    \/ Finalize
    \/ NextQuery
    \/ RepeatQuery

SpecSeq == SeqInit /\ [][SeqNext]_vars

\* C13: the canonical empty result is the same for every query: a query that
\* returns it without reaching the analytical store (an empty window, no
\* candidate) hands its caller no results, no previous page, no next page
\* and unknown hits, whatever queries ran before.
EmptyResultUnchanged ==
    (pc = "done" /\ result.status = "returned" /\ result.value.shared /\ calls = <<>>) =>
        EMPTY_RESULT = EmptyPage

\* in_bulk found every group of the page it was asked for.
NothingMissing(h) == h = None \/ Val(h).groups = Range(Val(h).page.results)

\* The two runs met the same stores and options: no group had gone when the
\* pages were hydrated, and where both sampled they drew samples of one size.
SameSurroundings ==
    /\ NothingMissing(hydration) /\ NothingMissing(Val(earlier).hydration)
    /\ \A a \in Range(SampleCalls), b \in Range(SelectSeq(Val(earlier).calls, LAMBDA c : c.referrer = "search_sample")) :
         a.limit = b.limit

SameOutcome ==
    /\ result.status = Val(earlier).status
    /\ Deref(result.value, EMPTY_RESULT) = Val(earlier).page

\* C14 as stated: a query repeated with the same arguments, options and
\* store contents returns the same ordered page, the same cursors with the
\* same has-more flags and the same hits, however the time budget elapses.
IdempotentAsStated ==
    (earlier # None /\ pc = "done" /\ SameSurroundings) => SameOutcome

\* C14: a query repeated with the same arguments, options and store
\* contents returns the same ordered page, the same cursors with the same
\* has-more flags and the same hits, whenever the time budget lets both
\* runs make the same number of loop passes.
Idempotent ==
    (earlier # None /\ pc = "done" /\ SameSurroundings /\ num_chunks = Val(earlier).num_chunks) =>
        SameOutcome

\* Both runs made two passes and returned a page with groups on it.
IdempotentWitness ==
    /\ earlier # None /\ pc = "done" /\ SameSurroundings
    /\ num_chunks = Val(earlier).num_chunks
    /\ num_chunks >= 2
    /\ result.status = "returned"
    /\ Len(Deref(result.value, EMPTY_RESULT).results) >= 1
    /\ SameOutcome

\* The returned page lists the queryset's most recently seen groups, most
\* recent first, as many as the limit allows.
RecencyPage ==
    LET page == result.value.results
    IN /\ result.status = "returned"
       /\ ~result.value.shared
       /\ Range(page) \subseteq matching
       /\ Len(page) = Min2(limit, Cardinality(matching))
       /\ \A i \in 1..Len(page) - 1 : last_seen[page[i]] > last_seen[page[i + 1]]
       /\ \A g \in matching \ Range(page) : \A i \in 1..Len(page) : last_seen[g] < last_seen[page[i]]

\* C12 as stated: every query with sort "date", no cursor, no environments
\* and no analytical-only predicate makes no analytical-store call and
\* returns the relational store's page in descending recency.
RelationalFastPathAsStated ==
    request.fast => (calls = <<>> /\ (pc = "done" => RecencyPage))

\* C12: a PostgresSnubaQueryExecutor query with sort "date", no cursor, no
\* environments, no analytical-only predicate and no end date (neither date_to
\* nor a date "<" filter) makes no analytical-store call and returns the
\* relational store's page in descending recency after one relational query.
RelationalFastPath ==
    (executor = "postgres" /\ request.fast /\ ~request.end_given /\ pc # "idle") =>
        /\ pc = "done"
        /\ calls = <<>>
        /\ pg_calls = <<"order_by_last_seen">>
        /\ RecencyPage

\* The fast path returned a full page of a queryset holding more groups than the limit.
RelationalFastPathWitness ==
    /\ executor = "postgres" /\ request.fast /\ ~request.end_given /\ pc = "done"
    /\ calls = <<>>
    /\ Cardinality(matching) > limit
    /\ Len(result.value.results) = limit
    /\ limit > 1
    /\ result.value.next.has_results

\* ------------------------------------------------------------------ failing store calls
\* A store call that raises: query() has no handler around any of its store
\* calls, so the exception leaves query() at once.
on_store_failure_retry(position) == position

\* Where the query stands after a store call has raised.
on_store_failure(position) == "done"

StoreFailed == [status |-> "failed", value |-> RefEmpty]
failed_call(name, calls_, pg_calls_) == Some([call |-> name, calls |-> Len(calls_), pg_calls |-> Len(pg_calls_)])

\* Lines 342-409 with the first relational query raising: the fast path's
\* paginator query or the candidate query.
PostgresQueryFails ==
    /\ pc = "idle"
    /\ UNCHANGED sideVars
    /\ \E limit_ \in LimitChoices, cursor_ \in CursorChoices, count_hits_ \in BOOLEAN,
          sort_by \in SortByChoices, environments \in EnvironmentChoices,
          search_filters \in SearchFilterChoices, date_from \in DateFromChoices,
          date_to \in DateToChoices, retention_window_start \in RetentionChoices :
         LET req == request_of("postgres", cursor_, sort_by, environments, search_filters,
                               date_from, date_to, retention_window_start)
             fast == takes_fast_path(req.end_given, req.fast)
             name == IF fast THEN "order_by_last_seen" ELSE "candidates"
         IN /\ fast \/ ~window_is_empty(req.window.start, req.window.end, req.window.retention_date)
            /\ limit' = limit_
            /\ cursor' = cursor_
            /\ count_hits' = count_hits_
            /\ request' = req
            /\ pg_calls' = <<name>>
            /\ failure' = failed_call(name, calls, pg_calls')
    /\ executor' = "postgres"
    /\ pc' = on_store_failure(pc)
    /\ result' = StoreFailed
    /\ UNCHANGED <<storeVars, EMPTY_RESULT, optVars, candVars, loopVars, calls,
                   drifted, hydration>>

\* Lines 445-522 and 783-829 with a call of the pass raising: snuba_search
\* itself, the relational post-filter of its rows, or the call that counts
\* the hits.
IterationFails ==
    /\ pc = "loop"
    /\ UNCHANGED sideVars
    /\ within_budget(elapsed, max_time)
    /\ failure = None
    /\ LET limit_grown == grow_chunk(chunk_limit, chunk_growth, max_chunk_size)
           limit_now == IF executor = "postgres" THEN floor_chunk(limit_grown, group_ids)
                        ELSE limit_grown
           call == snuba_search(snuba, cursor, group_ids, Some(limit_now), offset, FALSE)
       IN /\ num_chunks' = num_chunks + 1
          /\ chunk_limit' = limit_now
          /\ \/ /\ failure' = failed_call("snuba_search", calls, pg_calls)
                /\ UNCHANGED <<calls, pg_calls, more_results, offset>>
             \/ /\ executor = "postgres" /\ group_ids = <<>> /\ call.rows # <<>>
                /\ calls' = Append(calls, call)
                /\ pg_calls' = Append(pg_calls, "post_filter")
                /\ more_results' = more_results_of(Len(call.rows), limit, offset, call.total)
                /\ offset' = offset + Len(call.rows)
                /\ failure' = failed_call("post_filter", calls', pg_calls')
             \/ /\ hits = None /\ call.rows # <<>>
                /\ IF executor = "postgres"
                   THEN postgres_calculate_hits(snuba, matching, group_ids, call.rows,
                            too_many_candidates, cursor, count_hits, 1).calls # <<>>
                   ELSE snuba_only_calculate_hits(snuba, count_hits).calls # <<>>
                /\ calls' = Append(calls, call)
                /\ pg_calls' = pg_calls \o (IF executor = "postgres" /\ group_ids = <<>>
                                             THEN <<"post_filter">> ELSE <<>>)
                /\ more_results' = more_results_of(Len(call.rows), limit, offset, call.total)
                /\ offset' = offset + Len(call.rows)
                /\ failure' = failed_call("calculate_hits", calls', pg_calls')
    /\ pc' = on_store_failure(pc)
    /\ result' = StoreFailed
    /\ UNCHANGED <<storeVars, EMPTY_RESULT, argVars, optVars, candVars, hits, result_groups,
                   result_group_ids, paginator_results, elapsed, request, drifted, hydration,
                   hits_invoked>>

\* Lines 543-559 with Group.objects.in_bulk raising: the cursors' flags are
\* patched already, no page is returned.
HydrationFails ==
    /\ pc = "finalize" \/ (pc = "loop" /\ ~within_budget(elapsed, max_time))
    /\ UNCHANGED sideVars
    /\ failure = None
    /\ LET p0 == Deref(paginator_results, EMPTY_RESULT)
           p1 == patch_next(p0, limit, more_results)
           p2 == patch_prev(p1, cursor)
       IN IF paginator_results.shared
          THEN EMPTY_RESULT' = p2 /\ UNCHANGED paginator_results
          ELSE paginator_results' = p2 /\ UNCHANGED EMPTY_RESULT
    /\ pg_calls' = Append(pg_calls, "in_bulk")
    /\ failure' = failed_call("in_bulk", calls, pg_calls')
    /\ pc' = on_store_failure(pc)
    /\ result' = StoreFailed
    /\ UNCHANGED <<storeVars, argVars, optVars, candVars, chunk_limit, offset, num_chunks, hits,
                   result_groups, result_group_ids, more_results, elapsed, calls, request,
                   drifted, hydration, hits_invoked>>

FailNext ==
    \/ PostgresQuery
    \/ PostgresIteration
    \/ SnubaOnlyQuery
    \/ SnubaOnlyIteration
    \/ Finalize
    \/ PostgresQueryFails
    \/ IterationFails
    \/ HydrationFails

SpecFail == Init /\ [][FailNext]_vars

\* A pass failed in its hit counting, on either executor.
CountingFailed ==
    failure # None /\ Val(failure).call = "calculate_hits"

\* C16: once a store call has raised, the query is over and has failed: no
\* page is returned, the call is not made again and no other store call
\* follows it.
StoreFailureEndsQuery ==
    failure # None =>
        /\ pc = "done"
        /\ result = StoreFailed
        /\ Len(calls) = Val(failure).calls
        /\ Len(pg_calls) = Val(failure).pg_calls

\* The post-filter of the second pass raised after the first pass had
\* accumulated a group: the query failed and the accumulated page is not returned.
StoreFailureEndsQueryWitness ==
    /\ failure # None
    /\ Val(failure).call = "post_filter"
    /\ num_chunks = 2
    /\ result_groups # <<>>
    /\ pc = "done"
    /\ result = StoreFailed

\* C17: on both executors every identifier of a page the loop returns passed
\* the relational filter: it is a forwarded candidate, or it was among the
\* groups the queryset selects when the pass that accumulated it ran. The
\* stores did not change under the query, so the queryset still selects it.
PageIsFiltered ==
    (pc = "done" /\ result.status = "returned" /\ calls # <<>> /\ ~drifted) =>
        Range(Val(hydration).page.results) \subseteq
            (IF group_ids # <<>> THEN Range(group_ids) ELSE matching)

\* The PostgresSnubaQueryExecutor alone: a pass adds to the accumulator only
\* forwarded candidates or groups the queryset selects at that moment.
PostgresAccumulatesFiltered ==
    [][executor = "postgres" =>
         gids(result_groups') \ gids(result_groups) \subseteq
             (IF group_ids # <<>> THEN Range(group_ids) ELSE matching)]_vars

Position(seq, x) == CHOOSE k \in 1..Len(seq) : seq[k] = x

\* C18: the results a query returns after its loop are the identifiers of
\* the paginator's page that in_bulk found, each once and in the page's
\* order; an identifier in_bulk did not find is left out, the query still
\* returns, and the cursors and the hit count stay as they were.
HydrationKeepsFound ==
    (pc = "done" /\ hydration # None) =>
        LET ids == Val(hydration).page.results
            groups == Val(hydration).groups
            page == Deref(result.value, EMPTY_RESULT)
            out == page.results
        IN /\ result.status = "returned"
           /\ Range(out) = Range(ids) \cap groups
           /\ Cardinality(Range(out)) = Len(out)
           /\ \A i, j \in 1..Len(out) : i < j => Position(ids, out[i]) < Position(ids, out[j])
           /\ page.prev = Val(hydration).page.prev
           /\ page.next = Val(hydration).page.next
           /\ page.hits = Val(hydration).page.hits

\* A page of two identifiers lost its first one in hydration and kept a known hit count.
HydrationKeepsFoundWitness ==
    /\ pc = "done" /\ hydration # None
    /\ Len(Val(hydration).page.results) = 2
    /\ Val(hydration).groups # Range(Val(hydration).page.results)
    /\ result.status = "returned"
    /\ Len(result.value.results) = 1
    /\ result.value.hits # None

\* The store calls made to count hits: the sample, or the unlimited call of
\* the SnubaOnlyQueryExecutor.
CountingCalls == SelectSeq(calls, LAMBDA c : c.referrer = "search_sample" \/ c.limit = None)

\* C19 as stated: within one query calculate_hits is invoked at most once,
\* on the first pass, whatever it returns and however many passes follow.
HitsInvokedOnceAsStated ==
    /\ Len(hits_invoked) <= 1
    /\ hits_invoked # <<>> => hits_invoked[1].pass = 1

\* C19: within one query calculate_hits is first invoked on the first pass
\* and is invoked again only while every earlier invocation returned
\* unknown; a known count (0 or positive) is kept by every later pass, and
\* the store calls that count hits are made at most once.
HitsInvokedUntilKnown ==
    /\ \A k \in 1..Len(hits_invoked) :
         /\ hits_invoked[k].pass = k
         /\ k < Len(hits_invoked) => hits_invoked[k].hits = None
    /\ (hits # None /\ hits_invoked # <<>>) => hits = hits_invoked[Len(hits_invoked)].hits
    /\ Len(CountingCalls) <= 1

\* A second pass reused the count 0 the first pass had obtained.
HitsInvokedUntilKnownWitness ==
    /\ num_chunks = 2
    /\ Len(hits_invoked) = 1
    /\ hits_invoked[1].hits = Some(0)
    /\ hits = Some(0)
    /\ pc = "done"

\* A second pass reused a positive count.
HitsReusedPositive ==
    /\ num_chunks = 2 /\ Len(hits_invoked) = 1 /\ hits # None /\ Val(hits) > 0

\* ------------------------------------------------------------------ the loop without its budget
\* The clock never reaches max_time: every pass returns before the next
\* tick, so only the loop's own breaks can end it. The stores stay as they are.
PostgresPassInTime ==
    /\ UNCHANGED sideVars
    /\ PostgresIterationTaking(0)

SnubaOnlyPassInTime ==
    /\ UNCHANGED sideVars
    /\ SnubaOnlyIterationTaking(0)

TermNext ==
    \/ PostgresQuery
    \/ PostgresPassInTime
    \/ SnubaOnlyQuery
    \/ SnubaOnlyPassInTime
    \/ Finalize

SpecTerm == Init /\ [][TermNext]_vars

\* The groups the analytical store has rows for.
StoreRows == {i \in Ids : snuba[i] > 0}

\* C20: with a clock that never reaches the budget and stores that do not
\* change, a query makes at most one pass more than the analytical store
\* has groups, also when the post-filter rejects every identifier of a
\* chunk: every pass but the last finds rows and moves the offset past them.
LoopTerminates ==
    /\ num_chunks <= Cardinality(StoreRows) + 1
    /\ pc = "loop" => (num_chunks <= offset /\ offset <= Cardinality(StoreRows))

\* A query ended by itself after two passes although the post-filter had
\* rejected every identifier of its first chunk.
LoopTerminatesWitness ==
    /\ pc = "done" /\ elapsed = 0
    /\ executor = "postgres" /\ group_ids = <<>>
    /\ num_chunks >= 2
    /\ RankedCalls[1].rows # <<>>
    /\ gids(RankedCalls[1].rows) \cap matching = {}

\* C15: a query whose sort key is not in the executor's registry fails, and
\* fails first: it never returns a page, and no relational or analytical
\* store call is made before the failure.
UnknownSortFailsFirst ==
    (~request.sort_known /\ pc # "idle") =>
        /\ pc = "done"
        /\ result.status = "raised"
        /\ pg_calls = <<>>
        /\ calls = <<>>

\* ------------------------------------------------------------------ the time window
\* The clock and the date arguments of one query: the retention start is
\* absent, later or earlier than ninety days ago; the explicit dates lie
\* before the ninety days, inside them, or in the future.
WindowChoices ==
    [now : {Now, Now + Day},
     retention_window_start : {None, Some(Now - 30 * Day), Some(Now - 120 * Day)},
     search_filters : SearchFilterChoices,
     date_from : {None, Some(Now - 120 * Day), Some(Now - 10 * Day), Some(Now + Day)},
     date_to : {None, Some(Now - 120 * Day), Some(Now - 50 * Day), Some(Now - 10 * Day)}]

WindowInit ==
    /\ snuba = [i \in Ids |-> 0]
    /\ matching = {}
    /\ Idle
    /\ sampled = NoSample
    /\ estimate = None
    /\ window_args \in WindowChoices
    /\ window_out = NoWindow
    /\ earlier = None

\* Lines 342-397 and 746-766: the window query() hands to snuba_search,
\* and whether it returns EMPTY_RESULT instead.
ResolveWindow ==
    /\ ~window_out.resolved
    /\ LET a == window_args
           end_ == explicit_end(a.search_filters, a.date_to)
           end0 == IF end_ = None THEN a.now + ALLOWED_FUTURE_DELTA ELSE Val(end_)
           w == resolve_window(a.now, a.retention_window_start, a.search_filters, a.date_from, end0)
       IN window_out' = [resolved |-> TRUE, retention_date |-> w.retention_date,
                         start |-> w.start, end |-> w.end,
                         empty |-> window_is_empty(w.start, w.end, w.retention_date)]
    /\ UNCHANGED <<queryVars, hitVars, window_args, earlier>>

WindowNext == ResolveWindow

SpecWindow == WindowInit /\ [][WindowNext]_vars

\* The later of the retention start and ninety days before the clock.
retention_floor ==
    IF window_args.retention_window_start = None THEN window_args.now - NinetyDays
    ELSE Max2(Val(window_args.retention_window_start), window_args.now - NinetyDays)

\* C11: a window that is handed to the analytical store (it was resolved and
\* the query did not return the empty result for it) has start <= end, and
\* neither start nor end lies before the retention floor, the later of
\* retention_window_start and ninety days before now.
WindowClamped ==
    (window_out.resolved /\ ~window_out.empty) =>
        /\ window_out.start <= window_out.end
        /\ window_out.start >= retention_floor
        /\ window_out.end >= retention_floor

\* A retention start later than ninety days ago lifts an earlier date_from,
\* and the window stays open.
WindowClampedWitness ==
    /\ window_out.resolved /\ ~window_out.empty
    /\ window_args.retention_window_start # None
    /\ window_args.date_from # None
    /\ Val(window_args.date_from) < retention_floor
    /\ window_args.now - NinetyDays < retention_floor
    /\ window_out.start = retention_floor
    /\ window_out.start < window_out.end

\* ------------------------------------------------------------------ the budget
\* The ranked call a pass has just made.
PassCall == calls'[Len(calls) + 1]

\* C21: the budget is tested only where a pass starts. A pass starts only
\* while the elapsed time is below max_time, and a pass that has started
\* makes its ranked call and, when rows came back, post-filters, counts the
\* hits if they are unknown and rebuilds the page, whatever the clock shows
\* by then.
BudgetCheckedBetweenPasses ==
    [][(pc = "loop" /\ num_chunks' = num_chunks + 1) =>
         /\ elapsed < max_time
         /\ Len(calls') > Len(calls)
         /\ PassCall.referrer = "search" /\ PassCall.limit = Some(chunk_limit')
         /\ (PassCall.rows # <<>> /\ result'.status # "raised") =>
              /\ (executor = "postgres" /\ group_ids = <<>>) =>
                   (Len(pg_calls') > Len(pg_calls) /\ pg_calls'[Len(pg_calls) + 1] = "post_filter")
              /\ (hits = None) => Len(hits_invoked') = Len(hits_invoked) + 1
              /\ paginator_results' =
                     SequencePaginator_get_result(result_groups', limit, cursor, hits')]_vars

\* A pass used up the budget and still post-filtered, counted the hits and
\* built its page; the loop would have gone on had there been time.
BudgetCheckedBetweenPassesWitness ==
    /\ pc = "loop" /\ elapsed >= max_time
    /\ executor = "postgres" /\ group_ids = <<>>
    /\ num_chunks = 1
    /\ hits_invoked # <<>> /\ hits # None
    /\ ~paginator_results.shared
    /\ pg_calls[Len(pg_calls)] = "count"

\* ------------------------------------------------------------------ the cursors' flags
\* The page the loop left, as the paginator emitted it, and the page the
\* finalize step hands back.
EmittedPage == Deref(paginator_results, EMPTY_RESULT)
ReturnedPage == Deref(result'.value, EMPTY_RESULT')
Finalizes == pc # "done" /\ pc' = "done" /\ hydration = None /\ hydration' # None

\* C22: when the page the loop produced holds exactly `limit` results and
\* the last pass found more rows available, the returned next cursor says
\* there are more results; in every other case the next cursor is returned
\* as the paginator emitted it.
FinalizeNextFlag ==
    [][Finalizes =>
         /\ result'.status = "returned"
         /\ ReturnedPage.next.value = EmittedPage.next.value
         /\ ReturnedPage.next.has_results =
                IF Len(EmittedPage.results) = limit /\ more_results
                THEN TRUE ELSE EmittedPage.next.has_results]_vars

\* The paginator held exactly `limit` pairs and saw no next page, the store
\* had more rows, and the returned next cursor says so.
FinalizeNextFlagWitness ==
    /\ pc = "done" /\ hydration # None
    /\ Len(Val(hydration).page.results) = limit /\ more_results
    /\ ~SequencePaginator_get_result(result_groups, limit, cursor, hits).next.has_results
    /\ Deref(result.value, EMPTY_RESULT).next.has_results

RECURSIVE RowsReturned(_, _)
RowsReturned(calls_, n) ==
    IF n = 0 THEN 0 ELSE RowsReturned(calls_, n - 1) + Len(calls_[n].rows)

RowsAvailable == snuba_search(snuba, cursor, group_ids, None, 0, FALSE).total

\* C25: when the loop ends because the last pass found no more rows
\* available, and not for its budget, its candidates or a full page, every
\* row the analytical store has for the query has been fetched.
NoSilentTruncation ==
    (/\ pc = "finalize"
     /\ group_ids = <<>>
     /\ ~more_results
     /\ Len(Deref(paginator_results, EMPTY_RESULT).results) < limit) =>
        offset >= RowsAvailable

\* ------------------------------------------------------------------ the page against a reference
\* Every group the analytical store has rows for and the relational filter
\* selects, by score descending then identifier ascending.
ReferenceRanking == OrderDesc({i \in matching : snuba[i] > 0}, snuba)

\* C26: without a cursor, with stores that do not change and a budget that
\* is not exceeded, the page a post-filtering query produces holds the
\* first `limit` identifiers of the reference ranking, in that order.
PageMatchesReference ==
    (/\ pc = "done" /\ hydration # None
     /\ executor = "postgres" /\ too_many_candidates
     /\ cursor = None) =>
        Val(hydration).page.results = Slice(ReferenceRanking, 0, limit)

\* The same, for chunks that can hold a page: max_chunk_size is at least `limit`.
PageMatchesReferenceWithLargeChunks ==
    (/\ pc = "done" /\ hydration # None
     /\ executor = "postgres" /\ too_many_candidates
     /\ cursor = None /\ max_chunk_size >= limit) =>
        Val(hydration).page.results = Slice(ReferenceRanking, 0, limit)

\* ------------------------------------------------------------------ the estimator's strategies
\* C27: every call of calculate_hits the loop of the
\* PostgresSnubaQueryExecutor can make takes one of its branches: for the
\* candidates, the cursor and the counting flag of a running query it
\* returns None or a number and never reaches its last line with `hits`
\* unassigned; it returns None only when counting was not asked for, and a
\* query raises only for an unregistered sort key.
EstimatorSelectsStrategy ==
    /\ (executor = "postgres" /\ pc = "loop") =>
         /\ too_many_candidates \/ group_ids # <<>>
         /\ \A sample_size \in {1, MaxSampleSize} :
              ~postgres_calculate_hits(snuba, matching, group_ids, result_groups,
                                       too_many_candidates, cursor, count_hits,
                                       sample_size).raised
    /\ executor = "postgres" =>
         \A k \in 1..Len(hits_invoked) : hits_invoked[k].hits = None => ~count_hits
    /\ result.status = "raised" => ~request.sort_known

\* The candidates were forwarded, no cursor was given, and the estimator
\* returned the number of rows of the only chunk.
EstimatorSelectsStrategyWitness ==
    /\ pc = "done" /\ executor = "postgres" /\ result.status = "returned"
    /\ count_hits /\ cursor = None
    /\ ~too_many_candidates /\ Len(group_ids) = 2
    /\ Len(hits_invoked) = 1
    /\ hits = Some(Len(RankedCalls[1].rows))
    /\ SampleCalls = <<>>

\* ------------------------------------------------------------------ the empty chunk
\* C28: a pass whose ranked call returns no row ends the loop at once: no
\* post-filter, no call of the estimator, no new page. When this is the
\* first pass the query returns the initial empty page without a hit count,
\* also when counting was asked for.
EmptyChunkBreaks ==
    [][/\ (pc = "loop" /\ num_chunks' = num_chunks + 1 /\ PassCall.rows = <<>>) =>
            /\ pc' = "finalize"
            /\ calls' = Append(calls, PassCall)
            /\ pg_calls' = pg_calls
            /\ hits_invoked' = hits_invoked
            /\ UNCHANGED <<hits, result_groups, result_group_ids, paginator_results>>
       /\ (Finalizes /\ num_chunks = 1 /\ offset = 0) =>
            /\ paginator_results = RefEmpty
            /\ result' = Returned(RefEmpty)
            /\ ReturnedPage.results = <<>>
            /\ ReturnedPage.hits = None
            /\ hits = None /\ hits_invoked = <<>>]_vars

\* Counting was asked for, the first chunk came back empty, and the query
\* returned the initial empty page with no hit count and no estimator call.
EmptyChunkBreaksWitness ==
    /\ pc = "done" /\ hydration # None
    /\ count_hits
    /\ num_chunks = 1 /\ Len(calls) = 1 /\ calls[1].rows = <<>>
    /\ result = Returned(RefEmpty)
    /\ hits = None /\ hits_invoked = <<>>
    /\ "post_filter" \notin Range(pg_calls) /\ "count" \notin Range(pg_calls)
====
